---- MODULE Spec2Model ----
(***************************************************************************)
(* A model of src/nfa/nfa.py: the NFA class, its acceptance search, the    *)
(* in-place transforms ε_elimination and to_dfa, the combinators union,    *)
(* intersection, concat and kleene, and the regex compiler from_re.        *)
(*                                                                         *)
(* A Python character is a one-character TLA+ string; the character 'ε'    *)
(* is written "eps".  A Python string (a state name, an input, a pattern)  *)
(* is a sequence of characters, so that 'a' + name, ','.join(...) and      *)
(* sorted(...) can be computed as the code computes them.                  *)
(***************************************************************************)
EXTENDS Integers, Sequences, FiniteSets, TLC

VARIABLES a, b, n, pc, depth, re, word, result, args, calls, fobj

vars == <<a, b, n, pc, depth, re, word, result, args, calls, fobj>>

(***************************************************************************)
(* Bounds of the model.                                                    *)
(***************************************************************************)
\* the longest input string handed to accept
MaxLen == 3
\* the largest number of transitions of a drawn automaton
MaxTransitions == 3
\* the largest number of transitions of an automaton drawn over one symbol
MaxDeepTransitions == 4
\* the largest number of transitions of a drawn combinator operand
MaxOperandTransitions == 2
\* the longest drawn regex pattern
MaxPattern == 3
\* the longest transition list handed to the constructor
MaxEntries == 2
\* the largest number of calls of a transform on one automaton
MaxCalls == 2
\* the largest number of transitions of an operand whose combination is
\* transformed in place
MaxFrameTransitions == 1
\* the longest string handed to the email validator
MaxEmail == 8
\* the interpreter's recursion limit (sys.getrecursionlimit(), 1000 by
\* default), scaled down: the depth at which `return self.to_dfa()` raises
RecursionLimit == 6

(***************************************************************************)
(* Characters and strings.                                                 *)
(***************************************************************************)
EPS == "eps"

\* ord(c) for the characters that occur in state names
Ord(c) ==
  CASE c = "," -> 44
    [] c = "0" -> 48 [] c = "1" -> 49 [] c = "2" -> 50 [] c = "3" -> 51
    [] c = "4" -> 52 [] c = "5" -> 53 [] c = "6" -> 54 [] c = "7" -> 55
    [] c = "8" -> 56 [] c = "9" -> 57
    [] c = "a" -> 97 [] c = "b" -> 98 [] c = "f" -> 102 [] c = "k" -> 107
    [] c = "p" -> 112 [] c = "q" -> 113 [] c = "r" -> 114
    [] c = "{" -> 123 [] c = "}" -> 125

\* Python's x < y on strings: the first differing character decides, and a
\* proper prefix is smaller
RECURSIVE StrLess(_, _)
StrLess(x, y) ==
  IF y = <<>> THEN FALSE
  ELSE IF x = <<>> THEN TRUE
  ELSE IF Head(x) = Head(y) THEN StrLess(Tail(x), Tail(y))
  ELSE Ord(Head(x)) < Ord(Head(y))

\* sorted(S) for a collection of distinct strings
RECURSIVE Sorted(_)
Sorted(S) ==
  IF S = {} THEN <<>>
  ELSE LET m == CHOOSE x \in S : \A y \in S : x = y \/ StrLess(x, y)
       IN  <<m>> \o Sorted(S \ {m})

\* sep.join(seq) for a sequence of strings
RECURSIVE Join(_, _)
Join(sep, seq) ==
  IF seq = <<>> THEN <<>>
  ELSE IF Len(seq) = 1 THEN seq[1]
  ELSE seq[1] \o sep \o Join(sep, Tail(seq))

\* the elements of a sequence
Range(seq) == {seq[i] : i \in DOMAIN seq}

(***************************************************************************)
(* The automaton: self.transitions (triples <<from, symbol, to>>, one per  *)
(* character of an entry's symbols), self.q0 and self.F.                   *)
(***************************************************************************)
Automaton(transitions, F, q0) == [transitions |-> transitions, F |-> F, q0 |-> q0]

\* a call that ends in an exception yields Raised(exception) in place of an
\* automaton
Raised(exception) == [error |-> exception]

IsError(x) == "error" \in DOMAIN x

\* __init__(transitions, F, q0) for a list of entries that each carry one
\* symbol.  An omitted argument is falsy, and so is an empty F and an empty
\* q0: {} and <<>> stand for them.  transitions[0] and transitions[-1] raise
\* IndexError on an empty list.
NFA(entries, F, q0) ==
  IF entries = <<>> /\ (q0 = <<>> \/ F = {}) THEN Raised("IndexError")
  ELSE Automaton(Range(entries),
                 IF F = {} THEN {entries[Len(entries)][3]} ELSE F,
                 IF q0 = <<>> THEN entries[1][1] ELSE q0)

\* Σ(): the symbols of the transitions other than ε
Sigma(A) == {t[2] : t \in A.transitions} \ {EPS}

\* δ(current, input): the targets on `input`, the ε-targets without input
Delta(A, current, input) ==
  {t[3] : t \in {u \in A.transitions : u[1] = current /\ u[2] = input}}

\* Q(): the endpoints of the transitions
Q(A) == {t[1] : t \in A.transitions} \cup {t[3] : t \in A.transitions}

(***************************************************************************)
(* accept(input, state): the recursive search.  Its value is "True",       *)
(* "False" or "RecursionError".  The search is deterministic, so a call    *)
(* that meets, through ε-transitions alone, a state that is already on the *)
(* call stack with the same input repeats itself without end: Python ends  *)
(* it with RecursionError, which no caller catches.                        *)
(***************************************************************************)
RECURSIVE AcceptFrom(_, _, _, _), AcceptAny(_, _, _, _)
AcceptFrom(A, input, state, stack) ==
  LET st == IF state = <<>> THEN A.q0 ELSE state   \* state or self.q0
  IN  IF st \in stack THEN "RecursionError"
      ELSE LET viaEps == AcceptAny(A, input, Sorted(Delta(A, st, EPS)),
                                   stack \cup {st})
           IN  IF viaEps # "False" THEN viaEps
               ELSE IF input = <<>>
                 THEN (IF st \in A.F THEN "True" ELSE "False")
               ELSE AcceptAny(A, Tail(input),
                              Sorted(Delta(A, st, Head(input))), {})

\* the loops returning what the first target gives, without trying the others
AcceptAnyFirstOnly(A, input, targets, stack) ==
  IF targets = <<>> THEN "False"
  ELSE AcceptFrom(A, input, Head(targets), stack)

\* the loops `for n in ...: a = self.accept(input, n); if a: return True`
AcceptAny(A, input, targets, stack) ==
  IF targets = <<>> THEN "False"
  ELSE LET r == AcceptFrom(A, input, Head(targets), stack)
       IN  IF r # "False" THEN r
           ELSE AcceptAny(A, input, Tail(targets), stack)

accept(A, input) == AcceptFrom(A, input, <<>>, {})

(***************************************************************************)
(* ε_elimination(): one pass of the `while True` body for the ε-transition *)
(* t that `for t in εtransitions` meets first (the order of                *)
(* self.transitions is a set's iteration order, so any of them can be it). *)
(***************************************************************************)
EpsTransitions(A) == {t \in A.transitions : t[2] = EPS}

\* the loop body without `self.transitions.remove(t)`
EpsMergeKeeping(A, t) ==
  LET us   == t[1]
      them == t[3]
      moved == {<<IF u[1] = them THEN us ELSE u[1], u[2], u[3]>> : u \in A.transitions}
      retargeted == {<<u[1], u[2], IF u[3] = them THEN us ELSE u[3]>> : u \in moved}
  IN  Automaton(retargeted,
          IF them \in A.F THEN (A.F \ {them}) \cup {us} ELSE A.F,
          IF A.q0 = them THEN us ELSE A.q0)

EpsMerge(A, t) ==
  LET us   == t[1]
      them == t[3]
      \* self.transitions.remove(t)
      removed == A.transitions \ {t}
      \* move their transitions to ourself
      moved == {<<IF u[1] = them THEN us ELSE u[1], u[2], u[3]>> : u \in removed}
      retargeted == {<<u[1], u[2], IF u[3] = them THEN us ELSE u[3]>> : u \in moved}
  IN  Automaton(retargeted,
          IF them \in A.F THEN (A.F \ {them}) \cup {us} ELSE A.F,
          IF A.q0 = them THEN us ELSE A.q0)

(***************************************************************************)
(* to_dfa(): the body of `if len(self.δ(q,i)) > 1` for the pair (q, i) the *)
(* two `for` loops over Q() and Σ() meet first (both are sets, so any      *)
(* nondeterministic pair can be it).                                       *)
(***************************************************************************)
\* the scan with `> 2` written for `> 1`
NondeterministicPairsOffByOne(A) ==
  {p \in Q(A) \X Sigma(A) : Cardinality(Delta(A, p[1], p[2])) > 2}

NondeterministicPairs(A) ==
  {p \in Q(A) \X Sigma(A) : Cardinality(Delta(A, p[1], p[2])) > 1}

\* "{%s}" % ','.join(states)
CompositeName(states) == <<"{">> \o Join(<<",">>, states) \o <<"}">>

Determinize(A, q, i) ==
  LET states == Sorted(Delta(A, q, i))
      members == Range(states)
      state == CompositeName(states)
      \* add transitions pointing from substates
      added == A.transitions \cup
               {<<IF t[1] \in members THEN state ELSE t[1], t[2], t[3]>> :
                  t \in A.transitions}
      \* move transition targets to new state
      moved == {<<t[1], t[2], IF t[1] = q /\ t[2] = i THEN state ELSE t[3]>> :
                  t \in added}
      \* adjust recursive transitions
      adjusted == {<<t[1], t[2],
                     IF t[3] \in members /\ t[1] = state THEN state ELSE t[3]>> :
                     t \in moved}
  IN  Automaton(adjusted,
          \* copy accept state
          IF members \cap A.F # {} THEN A.F \cup {state} ELSE A.F,
          A.q0)

(***************************************************************************)
(* The automata and input strings the model draws.                         *)
(***************************************************************************)
StateNames == {<<"p">>, <<"q">>, <<"r">>}
InputSymbols == {"a", "b"}
Symbols == InputSymbols \cup {EPS}

RECURSIVE SubsetsUpTo(_, _)
SubsetsUpTo(S, k) ==
  IF k = 0 THEN {{}}
  ELSE LET smaller == SubsetsUpTo(S, k - 1)
       IN  smaller \cup {T \cup {x} : T \in smaller, x \in S}

\* the automata NFA(transitions, F, q0) constructs, both overrides given, from
\* at most k distinct single-symbol entries over the given states: F is never
\* empty (`F or ...`), and q0 and F are states of the automaton
Automata(names, symbols, k) ==
  {Automaton(T, F, q0) :
     <<T, F, q0>> \in
       {x \in (SubsetsUpTo(names \X symbols \X names, k) \ {{}})
                \X (SUBSET names \ {{}}) \X names :
          LET states == {t[1] : t \in x[1]} \cup {t[3] : t \in x[1]}
          IN  x[2] \subseteq states /\ x[3] \in states}}

RECURSIVE StringsUpTo(_)
StringsUpTo(k) ==
  IF k = 0 THEN {<<>>}
  ELSE LET shorter == StringsUpTo(k - 1)
       IN  shorter \cup {<<c>> \o s : c \in InputSymbols, s \in {x \in shorter : Len(x) = k - 1}}

Inputs == StringsUpTo(MaxLen)

NoNFA == Automaton({}, {}, <<>>)

\* the object self.F refers to: a list or a set, and the operands of a
\* combinator that hold the same object as their F.  A set no operand holds:
FreshSet == [kind |-> "set", shared |-> {}]

\* no constructor call is being followed
NoArgs == [transitions |-> <<>>, F |-> [passed |-> FALSE, value |-> {}],
           q0 |-> [passed |-> FALSE, value |-> <<>>]]

(***************************************************************************)
(* The in-place transforms as a process: `a` is the automaton as it was    *)
(* constructed, `n` the object the calls mutate, `pc` the position in the  *)
(* call, `depth` the number of to_dfa frames on the stack.  (`b` is the    *)
(* second operand of a combinator, `re` the pattern handed to from_re,     *)
(* `word` and `result` the argument and the outcome of a call of accept,   *)
(* `args` the arguments of a constructor call, `calls` the number of calls *)
(* of a transform that have returned on `n`, `fobj` the list or set object *)
(* that n.F refers to.)                                                    *)
(***************************************************************************)
Init ==
  /\ a \in Automata(StateNames, Symbols, MaxTransitions)
  /\ b = NoNFA
  /\ n = a
  /\ pc = "constructed"
  /\ depth = 0
  /\ re = <<>>
  /\ word = <<>>
  /\ result = "none"
  /\ args = NoArgs
  /\ calls = 0
  /\ fobj = FreshSet

\* n.ε_elimination() is called
EpsEliminationCall ==
  /\ pc = "constructed"
  /\ pc' = "eps_loop"
  /\ UNCHANGED <<a, b, n, depth, re, word, result, args, calls, fobj>>

\* ε_elimination with the body of `while True` run once
EpsEliminationSinglePass ==
  /\ pc = "eps_loop"
  /\ pc' = "eps_returned"
  /\ calls' = calls + 1
  /\ IF EpsTransitions(n) = {}
       THEN UNCHANGED <<n, fobj>>
       ELSE /\ \E t \in EpsTransitions(n) : n' = EpsMerge(n, t)
            /\ fobj' = FreshSet
  /\ UNCHANGED <<a, b, depth, re, word, result, args>>

\* one pass of the while loop of ε_elimination
EpsEliminationLoop ==
  /\ pc = "eps_loop"
  /\ IF EpsTransitions(n) = {}
       THEN /\ pc' = "eps_returned"
            /\ calls' = calls + 1
            /\ UNCHANGED <<n, fobj>>
       ELSE /\ \E t \in EpsTransitions(n) : n' = EpsMerge(n, t)
            /\ fobj' = FreshSet   \* self.F = set(self.F)
            /\ UNCHANGED <<pc, calls>>
  /\ UNCHANGED <<a, b, depth, re, word, result, args>>

\* n.to_dfa() is called
ToDfaCall ==
  /\ pc = "constructed"
  /\ pc' = "dfa_eps"
  /\ depth' = 1
  /\ UNCHANGED <<a, b, n, re, word, result, args, calls, fobj>>

\* self.ε_elimination() at the head of to_dfa: one pass of its loop
ToDfaEpsLoop ==
  /\ pc = "dfa_eps"
  /\ IF EpsTransitions(n) = {}
       THEN /\ pc' = "dfa_scan"
            /\ UNCHANGED <<n, fobj>>
       ELSE /\ \E t \in EpsTransitions(n) : n' = EpsMerge(n, t)
            /\ fobj' = FreshSet   \* self.F = set(self.F)
            /\ pc' = pc
  /\ UNCHANGED <<a, b, depth, re, word, result, args, calls>>

\* the scan of to_dfa: it returns when no pair is nondeterministic, and
\* otherwise rewrites the first such pair and calls itself
ToDfaScan ==
  /\ pc = "dfa_scan"
  /\ IF NondeterministicPairs(n) = {}
       THEN /\ pc' = "dfa_returned"
            /\ calls' = calls + 1
            /\ UNCHANGED <<a, b, n, depth>>
       ELSE /\ \E p \in NondeterministicPairs(n) :
                 LET rewritten == Determinize(n, p[1], p[2])
                 IN  IF Delta(n, p[1], p[2]) \cap n.F # {} /\ fobj.kind = "list"
                       \* self.F.add(state): a list has no method add
                       THEN /\ n' = [rewritten EXCEPT !.F = n.F]
                            /\ pc' = "AttributeError"
                            /\ UNCHANGED <<a, b, depth>>
                       \* self.F.add(state) changes the set object in place,
                       \* for every object that holds it
                       ELSE /\ n' = rewritten
                            /\ a' = IF "a" \in fobj.shared
                                      THEN [a EXCEPT !.F = rewritten.F] ELSE a
                            /\ b' = IF "b" \in fobj.shared
                                      THEN [b EXCEPT !.F = rewritten.F] ELSE b
                            /\ IF depth < RecursionLimit
                                 THEN pc' = "dfa_eps" /\ depth' = depth + 1
                                 ELSE pc' = "RecursionError" /\ depth' = depth
            /\ calls' = calls
  /\ UNCHANGED <<re, word, result, args, fobj>>

Next ==
  \/ EpsEliminationCall
  \/ EpsEliminationLoop
  \/ ToDfaCall
  \/ ToDfaEpsLoop
  \/ ToDfaScan

Spec == Init /\ [][Next]_vars

(***************************************************************************)
(* Claims about the in-place transforms, checked under Spec.               *)
(***************************************************************************)
\* the two automata answer alike on every input on which the first answers
SameAnswers(A, B) ==
  \A s \in Inputs : accept(A, s) # "RecursionError" => accept(B, s) = accept(A, s)

\* C1: for every automaton and every input string, accept returns the same
\* result before and after ε_elimination().  (Stated for the inputs on which
\* accept returned before the call.)
C1_EpsEliminationPreservesLanguage ==
  pc = "eps_returned" => SameAnswers(a, n)

\* C2: for every automaton on which to_dfa() returns and every input string,
\* accept returns the same result before and after to_dfa().  (Stated for the
\* automata without ε-transitions, where to_dfa's ε_elimination changes
\* nothing, and for the inputs on which accept returned before the call.)
C2_ToDfaPreservesLanguage ==
  (pc = "dfa_returned" /\ EpsTransitions(a) = {}) => SameAnswers(a, n)

\* C3: whenever to_dfa() returns, the automaton has no ε-transition and, for
\* every state q in Q() and every symbol i in Σ(), δ(q, i) holds at most one
\* target state.
C3_ToDfaIsDeterministic ==
  pc = "dfa_returned" =>
    /\ \A t \in n.transitions : t[2] # EPS
    /\ \A q \in Q(n) : \A i \in Sigma(n) :
         \A x, y \in {t \in n.transitions : t[1] = q /\ t[2] = i} : x[3] = y[3]

\* C3's case: to_dfa() returned on an automaton that had an ε-transition and,
\* after its elimination, a nondeterministic pair that was made a composite
C3_Witness ==
  /\ pc = "dfa_returned"
  /\ depth > 1
  /\ EpsTransitions(a) # {}
  /\ \E t \in n.transitions : Head(t[3]) = "{"

(***************************************************************************)
(* to_dfa on the automata over one input symbol, with one transition more. *)
(***************************************************************************)
InitToDfa ==
  /\ a \in Automata(StateNames, {"a", EPS}, MaxDeepTransitions)
  /\ b = NoNFA
  /\ n = a
  /\ pc = "constructed"
  /\ depth = 0
  /\ re = <<>>
  /\ word = <<>>
  /\ result = "none"
  /\ args = NoArgs
  /\ calls = 0
  /\ fobj = FreshSet

NextToDfa == ToDfaCall \/ ToDfaEpsLoop \/ ToDfaScan

SpecToDfa == InitToDfa /\ [][NextToDfa]_vars

\* C9: to_dfa() terminates on every finite automaton: the call returns, it
\* does not recurse until the interpreter ends it with RecursionError.
C9_ToDfaTerminates ==
  pc # "RecursionError"

(***************************************************************************)
(* accept as an operation: n.accept(input) is called on the constructed    *)
(* automaton with the input `word`; `result` keeps what the call ended     *)
(* with.                                                                   *)
(***************************************************************************)
InitAccept ==
  /\ a \in Automata(StateNames, Symbols, MaxOperandTransitions)
  /\ b = NoNFA
  /\ n = a
  /\ pc = "constructed"
  /\ depth = 0
  /\ re = <<>>
  /\ word = <<>>
  /\ result = "none"
  /\ args = NoArgs
  /\ calls = 0
  /\ fobj = FreshSet

Accept ==
  /\ pc = "constructed"
  /\ \E s \in Inputs :
       /\ word' = s
       /\ result' = accept(n, s)
  /\ pc' = "accepted"
  /\ UNCHANGED <<a, b, n, depth, re, args, calls, fobj>>

SpecAccept == InitAccept /\ [][Accept]_vars

\* C8: accept(input) terminates and returns true or false for every automaton
\* and every finite input, including automata whose ε-transitions form a
\* cycle.
C8_AcceptTerminates ==
  pc = "accepted" => result \in {"True", "False"}

(***************************************************************************)
(* The combinators.  A list built from a set is in the set's iteration     *)
(* order; the constructor reads a list's first and last entry only when q0 *)
(* or F is omitted, and those entries are then fixed by the code.          *)
(***************************************************************************)
RECURSIVE ListOf(_)
ListOf(S) ==
  IF S = {} THEN <<>>
  ELSE LET x == CHOOSE y \in S : TRUE IN <<x>> \o ListOf(S \ {x})

\* "{%s,%s}" % (x, y)
PairName(x, y) == <<"{">> \o x \o <<",">> \o y \o <<"}">>

intersection(A, B) ==
  LET fromA == {<<PairName(at[1], bq), at[2], PairName(at[3], bq)>> :
                  at \in A.transitions, bq \in Q(B)}
      fromB == {<<PairName(aq, bt[1]), bt[2], PairName(aq, bt[3])>> :
                  bt \in B.transitions, aq \in Q(A)}
      F == {PairName(af, bf) : af \in A.F, bf \in B.F}
      u == NFA(ListOf(fromA) \o ListOf(fromB), F, PairName(A.q0, B.q0))
      \* prune reflexive transitions that add no information
      pruned == {t \in u.transitions :
                   t[1] # t[3] \/ Cardinality(Delta(u, t[1], t[2])) = 1}
  IN  Automaton(pruned, u.F, u.q0)

union(A, B) ==
  LET start == <<<<"0">>, EPS, <<"a">> \o A.q0>>
      other == <<<<"0">>, EPS, <<"b">> \o B.q0>>
      fromA == {<<<<"a">> \o t[1], t[2], <<"a">> \o t[3]>> : t \in A.transitions}
      fromB == {<<<<"b">> \o t[1], t[2], <<"b">> \o t[3]>> : t \in B.transitions}
      F == {<<"a">> \o f : f \in A.F} \cup {<<"b">> \o f : f \in B.F}
  IN  NFA(<<start, other>> \o ListOf(fromA) \o ListOf(fromB), F, <<"0">>)

concat(A, B) ==
  LET fromA == {<<<<"a">> \o t[1], t[2], <<"a">> \o t[3]>> : t \in A.transitions}
      \* every accept state in a becomes a copy of b
      Copy(f) == {<<IF t[1] # B.q0 THEN f \o <<"b">> \o t[1] ELSE f,
                    t[2],
                    IF t[3] # B.q0 THEN f \o <<"b">> \o t[3] ELSE f>> :
                    t \in B.transitions}
      tagged == {<<"a">> \o f : f \in A.F}
      fromB == UNION {Copy(f) : f \in tagged}
      \* accept states are accept states of b
      F == {f \o <<"b">> \o s : f \in tagged, s \in B.F}
  IN  NFA(ListOf(fromA) \o ListOf(fromB), F, <<"a">> \o A.q0)

kleene(A) ==
  LET kq0 == <<"k", "q", "0">>
      kf == <<"k", "f">>
  IN  NFA(<<<<kq0, EPS, A.q0>>, <<kq0, EPS, kf>>>>
            \o ListOf(A.transitions)
            \o ListOf({<<f, EPS, A.q0>> : f \in A.F})
            \o ListOf({<<f, EPS, kf>> : f \in A.F}),
          {}, <<>>)

(***************************************************************************)
(* The combinators as operations on two constructed operands a and b: `n`  *)
(* is the automaton the call returns.                                      *)
(***************************************************************************)
\* a combinator that hands the first operand's own F to the constructor
ResultFOfOperand(op) == [kind |-> "set", shared |-> {"a"}]

\* the object the result of a combinator holds as F (`self.F = F or ...`
\* keeps the object it is handed): the set intersection builds, the list union
\* and concat build, the set the constructor builds for kleene; no operand
\* holds it
ResultF(op) ==
  [kind |-> IF op \in {"union", "concat"} THEN "list" ELSE "set", shared |-> {}]

OperandNames == {<<"p">>, <<"q">>}

InitSetOps ==
  /\ a \in Automata(OperandNames, Symbols, MaxOperandTransitions)
  /\ b \in Automata(OperandNames, Symbols, MaxOperandTransitions)
  /\ n = NoNFA
  /\ pc = "constructed"
  /\ depth = 0
  /\ re = <<>>
  /\ word = <<>>
  /\ result = "none"
  /\ args = NoArgs
  /\ calls = 0
  /\ fobj = FreshSet

Union ==
  /\ pc = "constructed"
  /\ n' = union(a, b)
  /\ pc' = "union"
  /\ fobj' = ResultF("union")
  /\ UNCHANGED <<a, b, depth, re, word, result, args, calls>>

Intersection ==
  /\ pc = "constructed"
  /\ n' = intersection(a, b)
  /\ pc' = "intersection"
  /\ fobj' = ResultF("intersection")
  /\ UNCHANGED <<a, b, depth, re, word, result, args, calls>>

Concat ==
  /\ pc = "constructed"
  /\ n' = concat(a, b)
  /\ pc' = "concat"
  /\ fobj' = ResultF("concat")
  /\ UNCHANGED <<a, b, depth, re, word, result, args, calls>>

Kleene ==
  /\ pc = "constructed"
  /\ n' = kleene(a)
  /\ pc' = "kleene"
  /\ fobj' = ResultF("kleene")
  /\ UNCHANGED <<a, b, depth, re, word, result, args, calls>>

NextSetOps == Union \/ Intersection \/ Concat \/ Kleene

SpecSetOps == InitSetOps /\ [][NextSetOps]_vars

(***************************************************************************)
(* Claims about the combinators, checked under SpecSetOps.                 *)
(***************************************************************************)
Accepts(A, s) == accept(A, s) = "True"

\* accept returns on every drawn input
Returns(A) == \A s \in Inputs : accept(A, s) # "RecursionError"

\* C4: for all automata a and b and every input string s,
\* union(a, b).accept(s) is true if and only if a.accept(s) is true or
\* b.accept(s) is true.
C4_UnionAcceptsEither ==
  pc = "union" =>
    \A s \in Inputs : Accepts(n, s) <=> (Accepts(a, s) \/ Accepts(b, s))

\* C5: for all automata a and b and every input string s,
\* intersection(a, b).accept(s) is true if and only if a.accept(s) is true and
\* b.accept(s) is true.  (Stated for operands on which accept returns.)
C5_IntersectionAcceptsBoth ==
  (pc = "intersection" /\ Returns(a) /\ Returns(b)) =>
    \A s \in Inputs : Accepts(n, s) <=> (Accepts(a, s) /\ Accepts(b, s))

\* C6: for all automata a and b and every input string s,
\* concat(a, b).accept(s) is true if and only if s splits as x + y with
\* a.accept(x) and b.accept(y).  (Stated for operands on which accept
\* returns.)
C6_ConcatAcceptsSplits ==
  (pc = "concat" /\ Returns(a) /\ Returns(b)) =>
    \A s \in Inputs :
      Accepts(n, s) <=>
        \E i \in 0..Len(s) :
          Accepts(a, SubSeq(s, 1, i)) /\ Accepts(b, SubSeq(s, i + 1, Len(s)))

\* s is a concatenation of zero or more strings that A accepts
RECURSIVE InStar(_, _)
InStar(A, s) ==
  \/ s = <<>>
  \/ \E i \in 1..Len(s) :
       Accepts(A, SubSeq(s, 1, i)) /\ InStar(A, SubSeq(s, i + 1, Len(s)))

\* C7: for every automaton a, kleene(a).accept("") is true, and for every
\* input string s kleene(a).accept(s) is true if and only if s is a
\* concatenation of zero or more strings each accepted by a.  (Stated for
\* operands on which accept returns.)
C7_KleeneAcceptsRepetitions ==
  (pc = "kleene" /\ Returns(a)) =>
    /\ Accepts(n, <<>>)
    /\ \A s \in Inputs : Accepts(n, s) <=> InStar(a, s)

(***************************************************************************)
(* rename() and from_re(re).                                               *)
(***************************************************************************)
\* str(i) for 0 <= i < 100
Digit(i) == <<"0", "1", "2", "3", "4", "5", "6", "7", "8", "9">>[i + 1]

Str(i) == IF i < 10 THEN <<Digit(i)>> ELSE <<Digit(i \div 10), Digit(i % 10)>>

\* rename(): ids numbers the sorted states; ids[f] and ids[q0] raise KeyError
\* for a name that is no state
rename(A) ==
  LET order == Sorted(Q(A))
      ids == [s \in Q(A) |-> Str((CHOOSE i \in DOMAIN order : order[i] = s) - 1)]
  IN  IF ~ (A.F \subseteq Q(A) /\ A.q0 \in Q(A)) THEN Raised("KeyError")
      ELSE Automaton({<<ids[t[1]], t[2], ids[t[3]]>> : t \in A.transitions},
                     {ids[f] : f \in A.F},
                     ids[A.q0])

\* the scan for the parenthesis that closes re[0]: the value of i when the
\* loop breaks, or 0 when re[i] raises IndexError (i counts from 0 as in the
\* code; re[i] is the model's re[i + 1])
RECURSIVE ScanParens(_, _, _)
ScanParens(str, i, open) ==
  IF i >= Len(str) THEN 0
  ELSE LET opened == IF str[i + 1] = "(" THEN open + 1 ELSE open
           closed == IF str[i + 1] = ")" THEN opened - 1 ELSE opened
       IN  IF closed = 0 \/ i + 1 > Len(str) THEN i + 1
           ELSE ScanParens(str, i + 1, closed)

\* re[k:] for k counted from 0
From(str, k) == SubSeq(str, k + 1, Len(str))

\* f(x, y) unless an argument is a raised exception
Lift2(f(_, _), x, y) == IF IsError(x) THEN x ELSE IF IsError(y) THEN y ELSE f(x, y)

RECURSIVE from_re(_), concat_re(_, _)
concat_re(str, nfa) ==
  IF Len(str) = 0 \/ str[1] = ")" THEN nfa
  ELSE IF Len(str) = 1 THEN NFA(<<<<<<"0">>, str[1], <<"1">>>>>>, {}, <<>>)
  ELSE
    LET i == ScanParens(str, 0, 0)
        paren == str[1] = "("
        \* consume the left hand side element
        lhs == IF paren
                 THEN Lift2(concat, nfa, from_re(SubSeq(str, 2, i - 1)))
                 ELSE from_re(<<IF str[1] # "!" THEN str[1] ELSE EPS>>)
        rest == IF paren THEN From(str, i - 1) ELSE str
    IN  IF paren /\ i = 0 THEN Raised("IndexError")
        ELSE IF IsError(lhs) THEN lhs
        ELSE IF Len(rest) > 1 /\ rest[2] = "*"
          THEN Lift2(concat, concat(nfa, kleene(lhs)), from_re(From(rest, 2)))
        ELSE IF Len(rest) > 1 /\ rest[2] = "+"
          THEN Lift2(concat, nfa, Lift2(union, lhs, from_re(From(rest, 2))))
        ELSE Lift2(concat, nfa, Lift2(concat, lhs, from_re(From(rest, 1))))

from_re(str) ==
  LET built == concat_re(str, NFA(<<<<<<"0">>, EPS, <<"1">>>>>>, {}, <<>>))
  IN  IF IsError(built) THEN built ELSE rename(built)

(***************************************************************************)
(* from_re as an operation on a drawn pattern.                             *)
(***************************************************************************)
PatternChars == {"a", "b", "!", "(", ")", "*", "+"}

RECURSIVE PatternsUpTo(_)
PatternsUpTo(k) ==
  IF k = 0 THEN {<<>>}
  ELSE LET shorter == PatternsUpTo(k - 1)
       IN  shorter \cup {<<c>> \o x : c \in PatternChars,
                                      x \in {y \in shorter : Len(y) = k - 1}}

InitRe ==
  /\ re \in PatternsUpTo(MaxPattern)
  /\ a = NoNFA
  /\ b = NoNFA
  /\ n = NoNFA
  /\ pc = "pattern"
  /\ depth = 0
  /\ word = <<>>
  /\ result = "none"
  /\ args = NoArgs
  /\ calls = 0
  /\ fobj = FreshSet

FromRe ==
  /\ pc = "pattern"
  /\ LET r == from_re(re)
     IN  IF IsError(r)
           THEN n' = n /\ pc' = r.error /\ fobj' = fobj
           \* rename(): self.F = [ids[f] for f in self.F]
           ELSE n' = r /\ pc' = "from_re" /\ fobj' = [kind |-> "list", shared |-> {}]
  /\ UNCHANGED <<a, b, depth, re, word, result, args, calls>>

SpecRe == InitRe /\ [][FromRe]_vars

(***************************************************************************)
(* Claims about from_re, checked under SpecRe.                             *)
(***************************************************************************)
\* the index of the last character of the term that leads a pattern: 1 for a
\* literal or `!`, the closing parenthesis for `(`, 0 when there is no term
RECURSIVE ClosingParen(_, _, _)
ClosingParen(str, k, open) ==
  IF k > Len(str) THEN 0
  ELSE LET level == open + (IF str[k] = "(" THEN 1 ELSE 0)
                         - (IF str[k] = ")" THEN 1 ELSE 0)
       IN  IF level = 0 THEN k ELSE ClosingParen(str, k + 1, level)

TermEnd(str) ==
  IF str = <<>> THEN 0
  ELSE IF str[1] \in InputSymbols \cup {"!"} THEN 1
  ELSE IF str[1] = "(" THEN ClosingParen(str, 1, 0)
  ELSE 0

\* the documented grammar: a possibly empty sequence of terms, each a literal,
\* `!` or a parenthesized pattern, a term optionally followed by `*` or, with
\* a pattern after it, by `+`
RECURSIVE InGrammar(_)
InGrammar(str) ==
  \/ str = <<>>
  \/ LET e == TermEnd(str)
         rest == SubSeq(str, e + 1, Len(str))
     IN  /\ e > 0
         /\ str[1] = "(" => InGrammar(SubSeq(str, 2, e - 1))
         /\ IF rest # <<>> /\ rest[1] = "*" THEN InGrammar(Tail(rest))
            ELSE IF rest # <<>> /\ rest[1] = "+"
              THEN Tail(rest) # <<>> /\ InGrammar(Tail(rest))
            ELSE InGrammar(rest)

\* the language the stated parse gives a pattern of the grammar
RECURSIVE InLanguage(_, _), InTerm(_, _), InTermStar(_, _)
InLanguage(str, s) ==
  IF str = <<>> THEN s = <<>>
  ELSE LET e == TermEnd(str)
           term == SubSeq(str, 1, e)
           rest == SubSeq(str, e + 1, Len(str))
       IN  IF rest # <<>> /\ rest[1] = "*"
             THEN \E i \in 0..Len(s) :
                    /\ InTermStar(term, SubSeq(s, 1, i))
                    /\ InLanguage(Tail(rest), SubSeq(s, i + 1, Len(s)))
           ELSE IF rest # <<>> /\ rest[1] = "+"
             THEN InTerm(term, s) \/ InLanguage(Tail(rest), s)
           ELSE \E i \in 0..Len(s) :
                  /\ InTerm(term, SubSeq(s, 1, i))
                  /\ InLanguage(rest, SubSeq(s, i + 1, Len(s)))

InTerm(term, s) ==
  IF term[1] = "(" THEN InLanguage(SubSeq(term, 2, Len(term) - 1), s)
  ELSE IF term[1] = "!" THEN s = <<>>
  ELSE s = term

InTermStar(term, s) ==
  \/ s = <<>>
  \/ \E i \in 1..Len(s) :
       InTerm(term, SubSeq(s, 1, i)) /\ InTermStar(term, SubSeq(s, i + 1, Len(s)))

\* C10: for every pattern of the documented grammar and every input string s,
\* from_re(p).accept(s) terminates and is true if and only if s is in the
\* language of the stated parse.
C10_FromReAcceptsLanguage ==
  InGrammar(re) =>
    /\ pc # "pattern" => pc = "from_re"
    /\ pc = "from_re" =>
         \A s \in Inputs :
           /\ accept(n, s) # "RecursionError"
           /\ Accepts(n, s) <=> InLanguage(re, s)

(***************************************************************************)
(* from_re on the patterns xy+z and x+yz of three literals, followed by a  *)
(* call of accept on the compiled automaton.                               *)
(***************************************************************************)
Literals == {"a", "b", "c"}

RECURSIVE StringsOver(_, _)
StringsOver(S, k) ==
  IF k = 0 THEN {<<>>}
  ELSE LET shorter == StringsOver(S, k - 1)
       IN  shorter \cup {<<c>> \o s : c \in S, s \in {x \in shorter : Len(x) = k - 1}}

InitPrecedence ==
  /\ re \in {<<x, y, "+", z>> : x \in Literals, y \in Literals, z \in Literals}
            \cup {<<x, "+", y, z>> : x \in Literals, y \in Literals, z \in Literals}
  /\ a = NoNFA
  /\ b = NoNFA
  /\ n = NoNFA
  /\ pc = "pattern"
  /\ depth = 0
  /\ word = <<>>
  /\ result = "none"
  /\ args = NoArgs
  /\ calls = 0
  /\ fobj = FreshSet

\* n.accept(input) on the automaton from_re returned
AcceptCompiled ==
  /\ pc = "from_re"
  /\ \E s \in StringsOver(Literals, MaxLen) :
       /\ word' = s
       /\ result' = accept(n, s)
  /\ pc' = "accepted"
  /\ UNCHANGED <<a, b, n, depth, re, args, calls, fobj>>

NextPrecedence == FromRe \/ AcceptCompiled

SpecPrecedence == InitPrecedence /\ [][NextPrecedence]_vars

\* the strings of a pattern x y + z or x + y z when `+` binds loosest
LoosestUnion(str) ==
  IF str[3] = "+" THEN {<<str[1], str[2]>>, <<str[4]>>}
  ELSE {<<str[1]>>, <<str[3], str[4]>>}

\* C11: from_re applies `*` tighter than concatenation tighter than `+`: for
\* literals x, y, z the automaton compiled from xy+z accepts exactly {xy, z}
\* and the one compiled from x+yz accepts exactly {x, yz}.
C11_ConcatBindsTighterThanUnion ==
  pc = "accepted" => (result = "True" <=> word \in LoosestUnion(re))

(***************************************************************************)
(* Further claims about from_re, checked under SpecRe.                     *)
(***************************************************************************)
\* C12: a `!` term denotes the empty string at every position of a pattern
\* of the grammar (first, inner, last, or the whole pattern): it consumes no
\* input symbol, the compiled automaton has no transition on the character
\* '!'.
C12_BangIsNeverASymbol ==
  (pc = "from_re" /\ InGrammar(re)) => \A t \in n.transitions : t[2] # "!"

\* the nesting depth after each character of a pattern: <<>> stands for a
\* depth below zero, met at a `)` that closes nothing
RECURSIVE Nesting(_, _)
Nesting(str, open) ==
  IF str = <<>> THEN <<open>>
  ELSE LET level == open + (IF Head(str) = "(" THEN 1 ELSE 0)
                         - (IF Head(str) = ")" THEN 1 ELSE 0)
       IN  IF level < 0 THEN <<>> ELSE Nesting(Tail(str), level)

\* an unmatched parenthesis, a leading operator, or a trailing `+`
Malformed(str) ==
  \/ Nesting(str, 0) # <<0>>
  \/ str # <<>> /\ str[1] \in {"*", "+"}
  \/ str # <<>> /\ str[Len(str)] = "+"

\* C13: from_re(p) ends in an error, and returns no automaton, for every
\* malformed pattern p: an unmatched `(`, an unmatched `)`, a leading operator
\* with no left operand, or a trailing `+` with no right operand.
C13_MalformedPatternsRaise ==
  Malformed(re) => pc # "from_re"

(***************************************************************************)
(* The constructor as an operation: NFA(transitions, F, q0) is called with *)
(* the arguments `args`, each optional argument passed or omitted.         *)
(***************************************************************************)
RECURSIVE ListsUpTo(_, _)
ListsUpTo(S, k) ==
  IF k = 0 THEN {<<>>}
  ELSE LET shorter == ListsUpTo(S, k - 1)
       IN  shorter \cup {<<x>> \o l : x \in S, l \in {y \in shorter : Len(y) = k - 1}}

Omitted(value) == [passed |-> FALSE, value |-> value]

Passed(value) == [passed |-> TRUE, value |-> value]

ConstructorCalls ==
  [transitions : ListsUpTo(OperandNames \X {"a", EPS} \X OperandNames, MaxEntries),
   F : {Omitted({})} \cup {Passed(F) : F \in SUBSET OperandNames},
   q0 : {Omitted(<<>>)} \cup {Passed(q) : q \in OperandNames}]

InitConstruct ==
  /\ args \in ConstructorCalls
  /\ a = NoNFA
  /\ b = NoNFA
  /\ n = NoNFA
  /\ pc = "call"
  /\ depth = 0
  /\ re = <<>>
  /\ word = <<>>
  /\ result = "none"
  /\ calls = 0
  /\ fobj = FreshSet

\* n = NFA(transitions, F, q0); F=None and q0=None are the omitted arguments
Construct ==
  /\ pc = "call"
  /\ LET r == NFA(args.transitions, args.F.value, args.q0.value)
     IN  IF IsError(r)
           THEN n' = n /\ pc' = r.error
           ELSE n' = r /\ pc' = "constructed"
  /\ UNCHANGED <<a, b, depth, re, word, result, args, calls, fobj>>

SpecConstruct == InitConstruct /\ [][Construct]_vars

\* C14: NFA(transitions, F, q0) uses the caller's overrides whenever they are
\* supplied: the start state is q0 if q0 is passed and otherwise the
\* from-state of the first entry; the accept set is exactly F if F is passed
\* (an empty accept set included) and otherwise the singleton of the to-state
\* of the last entry.
C14_ConstructorUsesOverrides ==
  pc = "constructed" =>
    /\ n.q0 = IF args.q0.passed THEN args.q0.value ELSE args.transitions[1][1]
    /\ n.F = IF args.F.passed THEN args.F.value
             ELSE {args.transitions[Len(args.transitions)][3]}

\* C20: constructing an automaton from an empty transition list always fails
\* with an error and yields no automaton, whether or not the optional
\* accept-set and start-state overrides are passed.
C20_EmptyListRaises ==
  args.transitions = <<>> => pc # "constructed"

(***************************************************************************)
(* Further claims about the combinators, checked under SpecSetOps.         *)
(***************************************************************************)
\* the start state and every accept state are endpoints of transitions
WellFormed(A) == A.q0 \in Q(A) /\ A.F \subseteq Q(A)

\* C15: after construction and after a combinator (union, intersection,
\* concat, kleene) the start state q0 is a member of Q() and every accept
\* state in F is a member of Q().
C15_StartAndAcceptAreStates ==
  /\ WellFormed(a)
  /\ WellFormed(b)
  /\ pc # "constructed" => WellFormed(n)

(***************************************************************************)
(* The in-place transforms called again on an automaton on which they have *)
(* returned.                                                               *)
(***************************************************************************)
\* n.ε_elimination() is called after it has returned
EpsEliminationAgain ==
  /\ pc = "eps_returned"
  /\ calls < MaxCalls
  /\ pc' = "eps_loop"
  /\ UNCHANGED <<a, b, n, depth, re, word, result, args, calls, fobj>>

\* n.to_dfa() is called after it has returned
ToDfaAgain ==
  /\ pc = "dfa_returned"
  /\ calls < MaxCalls
  /\ pc' = "dfa_eps"
  /\ depth' = 1
  /\ UNCHANGED <<a, b, n, re, word, result, args, calls, fobj>>

NextRepeat ==
  \/ EpsEliminationCall
  \/ EpsEliminationLoop
  \/ EpsEliminationAgain
  \/ ToDfaCall
  \/ ToDfaEpsLoop
  \/ ToDfaScan
  \/ ToDfaAgain

SpecRepeat == Init /\ [][NextRepeat]_vars

\* C16: ε_elimination() and to_dfa() are idempotent: once a call has returned,
\* no step of a further call of the same transform changes the transition
\* relation, the start state or the accept set.
C16_TransformsAreIdempotent ==
  [][calls >= 1 => n' = n]_vars

\* C16's case: to_dfa() has returned a second time on an automaton its first
\* call rewrote
C16_Witness ==
  /\ pc = "dfa_returned"
  /\ calls = 2
  /\ NondeterministicPairs(a) # {}

(***************************************************************************)
(* A combinator followed by an in-place transform of its result: `a` and   *)
(* `b` are the operand objects, `n` the result object.                     *)
(***************************************************************************)
InitFrame ==
  /\ a \in Automata(OperandNames, {"a", EPS}, MaxFrameTransitions)
  /\ b \in Automata(OperandNames, {"a", EPS}, MaxFrameTransitions)
  /\ n = NoNFA
  /\ pc = "constructed"
  /\ depth = 0
  /\ re = <<>>
  /\ word = <<>>
  /\ result = "none"
  /\ args = NoArgs
  /\ calls = 0
  /\ fobj = FreshSet

\* n.ε_elimination() is called on the result of a combinator
ResultEpsElimination ==
  /\ pc \in {"union", "intersection", "concat", "kleene"}
  /\ pc' = "eps_loop"
  /\ UNCHANGED <<a, b, n, depth, re, word, result, args, calls, fobj>>

\* n.to_dfa() is called on the result of a combinator
ResultToDfa ==
  /\ pc \in {"union", "intersection", "concat", "kleene"}
  /\ pc' = "dfa_eps"
  /\ depth' = 1
  /\ UNCHANGED <<a, b, n, re, word, result, args, calls, fobj>>

NextFrame ==
  \/ Union
  \/ Intersection
  \/ Concat
  \/ Kleene
  \/ ResultEpsElimination
  \/ EpsEliminationLoop
  \/ ResultToDfa
  \/ ToDfaEpsLoop
  \/ ToDfaScan

SpecFrame == InitFrame /\ [][NextFrame]_vars

\* C17: union(a, b), intersection(a, b), concat(a, b) and kleene(a) leave
\* their operands unchanged: no step of the call, and no step of a later
\* in-place ε_elimination() or to_dfa() on the result, changes an operand's
\* transitions, start state or accept set.
C17_OperandsAreUnchanged ==
  [][a' = a /\ b' = b]_vars

\* C17's case: to_dfa() on the result of a combinator added a composite state
\* to the result's accept set in place, and returned
C17_Witness ==
  /\ pc = "dfa_returned"
  /\ fobj.kind = "set"
  /\ \E f \in n.F : Head(f) = "{" /\ f \notin {PairName(x, y) : x \in Q(a), y \in Q(b)}

(***************************************************************************)
(* ε_elimination alone, its loop scheduled fairly: a call that has started *)
(* keeps running its `while True` loop.                                    *)
(***************************************************************************)
InitEps ==
  /\ a \in Automata(StateNames, {"a", EPS}, MaxTransitions)
  /\ b = NoNFA
  /\ n = a
  /\ pc = "constructed"
  /\ depth = 0
  /\ re = <<>>
  /\ word = <<>>
  /\ result = "none"
  /\ args = NoArgs
  /\ calls = 0
  /\ fobj = FreshSet

NextEps == EpsEliminationCall \/ EpsEliminationLoop

SpecEps == InitEps /\ [][NextEps]_vars /\ WF_vars(EpsEliminationLoop)

\* C18: ε_elimination() terminates on every finite automaton, ε-cycles and ε
\* self-loops included: each loop iteration strictly decreases the number of
\* ε-transitions, a call that has started returns, and when it returns no
\* ε-transition remains.
C18_EpsEliminationTerminates ==
  /\ [][(pc = "eps_loop" /\ pc' = "eps_loop") =>
          Cardinality(EpsTransitions(n')) < Cardinality(EpsTransitions(n))]_vars
  /\ [](pc = "eps_returned" => EpsTransitions(n) = {})
  /\ (pc = "eps_loop" ~> pc = "eps_returned")

\* C18's case: ε_elimination() returned on an automaton whose ε-transitions
\* formed a cycle through two states
C18_Witness ==
  /\ pc = "eps_returned"
  /\ \E t, u \in EpsTransitions(a) : t[1] # t[3] /\ t[3] = u[1] /\ u[3] = t[1]

(***************************************************************************)
(* email_validator(): the automaton built from the fixed table, whose      *)
(* entries carry strings of symbols.                                       *)
(***************************************************************************)
\* string.ascii_lowercase and string.digits
lower == <<"a", "b", "c", "d", "e", "f", "g", "h", "i", "j", "k", "l", "m", "n", "o", "p", "q", "r", "s", "t", "u", "v", "w", "x", "y", "z">>

digits == <<"0", "1", "2", "3", "4", "5", "6", "7", "8", "9">>

\* [(i[0], char, i[2]) for i in transitions for char in i[1]]: one entry per
\* symbol of each entry
RECURSIVE SingleSymbolEntries(_)
SingleSymbolEntries(entries) ==
  IF entries = <<>> THEN <<>>
  ELSE LET i == Head(entries)
       IN  [k \in 1..Len(i[2]) |-> <<i[1], i[2][k], i[3]>>]
             \o SingleSymbolEntries(Tail(entries))

\* the state names 'start', 'username', '@', 'domain', 'tld length k'
start == <<"s", "t", "a", "r", "t">>

username == <<"u", "s", "e", "r", "n", "a", "m", "e">>

at == <<"@">>

domain == <<"d", "o", "m", "a", "i", "n">>

tld_length(k) == <<"t", "l", "d", " ", "l", "e", "n", "g", "t", "h", " ">> \o Str(k)

EmailTable ==
  << <<start, lower \o digits, username>>,
     <<username, lower \o digits, username>>,
     <<username, <<"@">>, at>>,
     <<at, lower \o digits, domain>>,
     <<domain, lower \o digits, domain>>,
     <<domain, <<".">>, tld_length(0)>>,
     <<tld_length(0), lower \o digits, tld_length(1)>>,
     <<tld_length(1), lower \o digits, tld_length(2)>>,
     <<tld_length(1), <<".">>, tld_length(0)>>,
     <<tld_length(2), lower \o digits, tld_length(3)>>,
     <<tld_length(2), <<".">>, tld_length(0)>>,
     <<tld_length(3), lower \o digits, domain>>,
     <<tld_length(3), <<".">>, tld_length(0)>> >>

\* the validator with 'tld length 2' as its only accept state
email_validator_short_tld ==
  NFA(SingleSymbolEntries(EmailTable), {tld_length(2)}, <<>>)

email_validator ==
  NFA(SingleSymbolEntries(EmailTable), {tld_length(2), tld_length(3)}, <<>>)

\* the characters of the strings handed to the validator: a letter, a digit,
\* '@' and '.'
EmailChars == {"a", "7", "@", "."}

InitEmail ==
  /\ n = email_validator
  /\ a = NoNFA
  /\ b = NoNFA
  /\ pc = "constructed"
  /\ depth = 0
  /\ re = <<>>
  /\ word = <<>>
  /\ result = "none"
  /\ args = NoArgs
  /\ calls = 0
  /\ fobj = [kind |-> "list", shared |-> {}]

\* ev.accept(input)
AcceptEmail ==
  /\ pc = "constructed"
  /\ \E s \in StringsOver(EmailChars, MaxEmail) :
       /\ word' = s
       /\ result' = accept(n, s)
  /\ pc' = "accepted"
  /\ UNCHANGED <<a, b, n, depth, re, args, calls, fobj>>

SpecEmail == InitEmail /\ [][AcceptEmail]_vars

\* the pieces of a string between the occurrences of a separator
RECURSIVE Split(_, _, _)
Split(s, sep, piece) ==
  IF s = <<>> THEN <<piece>>
  ELSE IF Head(s) = sep THEN <<piece>> \o Split(Tail(s), sep, <<>>)
  ELSE Split(Tail(s), sep, Append(piece, Head(s)))

\* a non-empty string of lowercase letters and digits
Alphanumeric(s) ==
  s # <<>> /\ \A k \in DOMAIN s : s[k] \in Range(lower) \cup Range(digits)

\* U '@' L ('.' L)* '.' T
EmailForm(s) ==
  LET parts == Split(s, "@", <<>>)
  IN  /\ Len(parts) = 2
      /\ Alphanumeric(parts[1])
      /\ LET labels == Split(parts[2], ".", <<>>)
         IN  /\ Len(labels) >= 2
             /\ \A k \in DOMAIN labels : Alphanumeric(labels[k])
             /\ Len(labels[Len(labels)]) \in {2, 3}

\* C19: email_validator() is deterministic (at most one transition per state
\* and symbol, no ε) and accepts a string s if and only if s has the form
\* U '@' L ('.' L)* '.' T, where U and each L are non-empty strings of
\* lowercase letters and digits and T is a string of 2 or 3 of them.
C19_EmailValidatorAcceptsEmailForm ==
  /\ pc = "constructed" =>
       /\ \A t \in n.transitions : t[2] # EPS
       /\ \A t, u \in n.transitions : (t[1] = u[1] /\ t[2] = u[2]) => t[3] = u[3]
  /\ pc = "accepted" => (result = IF EmailForm(word) THEN "True" ELSE "False")

\* C19's case: the validator accepted an address whose domain has a label
\* between the first label and the top-level label
C19_Witness ==
  /\ pc = "accepted"
  /\ result = "True"
  /\ Len(Split(word, ".", <<>>)) = 3

(***************************************************************************)
(* The in-place transforms on an automaton constructed with an explicit F  *)
(* argument that is a set or a list: `self.F = F or ...` keeps the object  *)
(* the caller passed.                                                      *)
(***************************************************************************)
InitSupplied ==
  /\ a \in Automata(StateNames, {"a", EPS}, MaxTransitions)
  /\ b = NoNFA
  /\ n = a
  /\ pc = "constructed"
  /\ depth = 0
  /\ re = <<>>
  /\ word = <<>>
  /\ result = "none"
  /\ args = NoArgs
  /\ calls = 0
  /\ fobj \in {FreshSet, [kind |-> "list", shared |-> {}]}

SpecSupplied == InitSupplied /\ [][Next]_vars

\* C21: ε_elimination() and to_dfa() complete without raising an error on
\* every automaton whose start state and accept states are states, however
\* its accept set was supplied, an explicit F argument that is a list
\* included: no call ends in AttributeError.
C21_TransformsRaiseNoError ==
  pc # "AttributeError"

(***************************************************************************)
(* The combinators on operands whose state names look like the names the   *)
(* combinators make ('kf', 'pbp'), and kleene applied to its own result.   *)
(***************************************************************************)
TagNames == {<<"p">>, <<"p", "b", "p">>, <<"k", "f">>}

InitTags ==
  /\ a \in Automata(TagNames, {"a", EPS}, MaxFrameTransitions)
  /\ b \in Automata(TagNames, {"a", EPS}, MaxFrameTransitions)
  /\ n = NoNFA
  /\ pc = "constructed"
  /\ depth = 0
  /\ re = <<>>
  /\ word = <<>>
  /\ result = "none"
  /\ args = NoArgs
  /\ calls = 0
  /\ fobj = FreshSet

\* n = NFA.kleene(n) on the result of kleene
KleeneAgain ==
  /\ pc = "kleene"
  /\ n' = kleene(n)
  /\ pc' = "kleene_kleene"
  /\ fobj' = ResultF("kleene")
  /\ UNCHANGED <<a, b, depth, re, word, result, args, calls>>

NextTags == Union \/ Intersection \/ Concat \/ Kleene \/ KleeneAgain

SpecTags == InitTags /\ [][NextTags]_vars

\* the names concat gives the states it copies: 'a' + x for a state x of the
\* first operand, and f + 'b' + y for a tagged accept state f of the first
\* operand and a state y of the second other than its start state
ConcatCopies(A, B) ==
  [first  |-> {<<"a">> \o x : x \in Q(A)},
   second |-> [f \in {<<"a">> \o x : x \in A.F} |->
                 {f \o <<"b">> \o y : y \in Q(B) \ {B.q0}}]]

\* C22: in the result of each of the four combinators, the states copied from
\* one operand, the states copied from the other operand and the freshly
\* introduced states (union's start state, kleene's start and accept states)
\* are pairwise distinct whatever the operands' state names are.
C22_CopiedStatesAreDistinct ==
  /\ pc = "union" =>
        Cardinality(Q(n)) = Cardinality(Q(a)) + Cardinality(Q(b)) + 1
  /\ pc = "intersection" =>
        \A x1, x2 \in Q(a) : \A y1, y2 \in Q(b) :
          PairName(x1, y1) = PairName(x2, y2) => (x1 = x2 /\ y1 = y2)
  /\ pc = "concat" =>
        LET copies == ConcatCopies(a, b)
        IN  \A f \in DOMAIN copies.second :
              /\ copies.second[f] \cap copies.first = {}
              /\ \A g \in DOMAIN copies.second :
                    f # g => copies.second[f] \cap copies.second[g] = {}
  /\ pc = "kleene" =>
        Cardinality(Q(n)) = Cardinality(Q(a)) + 2
  /\ pc = "kleene_kleene" =>
        Cardinality(Q(n)) = Cardinality(Q(kleene(a))) + 2

(***************************************************************************)
(* Further claims about accept, checked under SpecAccept.                  *)
(***************************************************************************)
\* the set-based simulation: the states reachable from S by ε-transitions
RECURSIVE EpsClosure(_, _)
EpsClosure(A, S) ==
  LET T == S \cup {t[3] : t \in {u \in EpsTransitions(A) : u[1] \in S}}
  IN  IF T = S THEN S ELSE EpsClosure(A, T)

\* the states reached from the set S after the symbols of s, closing under ε
\* after each symbol
RECURSIVE Simulate(_, _, _)
Simulate(A, s, S) ==
  IF s = <<>> THEN S
  ELSE Simulate(A, Tail(s),
         EpsClosure(A, {t[3] : t \in {u \in A.transitions :
                                        u[1] \in S /\ u[2] = Head(s)}}))

SetAccepts(A, s) == Simulate(A, s, EpsClosure(A, {A.q0})) \cap A.F # {}

\* some state has no transition on some symbol of the input
SomeStateIsStuck(A, s) ==
  \E q \in Q(A) : \E k \in DOMAIN s : Delta(A, q, s[k]) = {}

\* C23: in accept, a state with no transition on the next input symbol makes
\* only that search branch fail: the call raises no error, returns true
\* exactly when some branch accepts, and leaves the automaton's transitions,
\* start state and accept set unchanged.
C23_StuckBranchOnlyFails ==
  (pc = "accepted" /\ SomeStateIsStuck(a, word)) =>
    /\ result = IF SetAccepts(a, word) THEN "True" ELSE "False"
    /\ n = a

\* accept on the automata of up to MaxTransitions transitions over one
\* input symbol and ε
SpecSearch == InitEps /\ [][Accept]_vars

\* no state reaches itself through ε-transitions
EpsAcyclic(A) ==
  \A q \in Q(A) : q \notin EpsClosure(A, Delta(A, q, EPS))

C25_IntersectionMovesJointly ==
  pc = "intersection" =>
    /\ \A t \in n.transitions :
         \E ta \in a.transitions : \E tb \in b.transitions :
           /\ ta[2] = tb[2]
           /\ t = <<PairName(ta[1], tb[1]), ta[2], PairName(ta[3], tb[3])>>
    /\ n.q0 = PairName(a.q0, b.q0)
    /\ n.F = {PairName(af, bf) : af \in a.F, bf \in b.F}

(***************************************************************************)
(* Two runs of to_dfa on the same automaton: when the first has returned,  *)
(* `b` keeps its result and `n` is a second object constructed from the    *)
(* same arguments, on which to_dfa runs again, free to meet the            *)
(* nondeterministic pairs in another order.                                *)
(***************************************************************************)
ToDfaOtherRun ==
  /\ pc = "dfa_returned"
  /\ calls = 1
  /\ b' = n
  /\ n' = a
  /\ pc' = "dfa_eps"
  /\ depth' = 1
  /\ UNCHANGED <<a, re, word, result, args, calls, fobj>>

NextOrders == ToDfaCall \/ ToDfaEpsLoop \/ ToDfaScan \/ ToDfaOtherRun

SpecOrders == InitToDfa /\ [][NextOrders]_vars

\* C26: the language accepted after to_dfa() does not depend on the order in
\* which nondeterministic (state, symbol) pairs are resolved: any two
\* terminating runs of to_dfa() on an automaton without ε-transitions yield
\* automata that accept exactly the same strings.
C26_ToDfaOrderIndependent ==
  (pc = "dfa_returned" /\ calls = 2 /\ EpsTransitions(a) = {}) =>
    \A s \in Inputs : accept(n, s) = accept(b, s)

(***************************************************************************)
(* The table-driven DFA of src/homework/1/9.py.  Its transitions are       *)
(* (state, symbols, state) entries whose middle member is a string of      *)
(* symbols; δ is a dict keyed by (state, symbol).                          *)
(***************************************************************************)
MaxTableTransitions == 2

\* x in y for two Python strings: x is a substring of y
Substring(x, y) ==
  \E i \in 0..(Len(y) - Len(x)) : SubSeq(y, i + 1, i + Len(x)) = x

\* state in self.F: F is the accept list that was passed, or the name of the
\* last target state, a string
InF(state, F) ==
  IF F.kind = "str" THEN Substring(state, F.value) ELSE state \in F.value

\* DFA(transitions, accept): dict(ChainMap(...)) keeps, for a key several
\* entries give, the value of the first entry
DFA(transitions, accepting) ==
  IF transitions = <<>> THEN Raised("IndexError")
  ELSE LET gives(i, k) ==
             transitions[i][1] = k[1] /\ k[2] \in Range(transitions[i][2])
           keys == {<<transitions[i][1], c>> :
                      i \in DOMAIN transitions, c \in InputSymbols}
           last == transitions[Len(transitions)][3]
       IN  [Q |-> {transitions[i][1] : i \in DOMAIN transitions}
                    \cup {transitions[i][3] : i \in DOMAIN transitions},
            Sigma |-> UNION {Range(transitions[i][2]) : i \in DOMAIN transitions},
            delta |-> [k \in {x \in keys : \E i \in DOMAIN transitions : gives(i, x)} |->
                         transitions[CHOOSE i \in DOMAIN transitions :
                                       /\ gives(i, k)
                                       /\ \A j \in 1..(i - 1) : ~gives(j, k)][3]],
            q0 |-> transitions[1][1],
            F |-> IF accepting.passed /\ accepting.value # {}
                  THEN [kind |-> "list", value |-> accepting.value]
                  ELSE [kind |-> "str", value |-> last]]

TableNames == {<<"p">>, <<"q">>, <<"p", "q">>}
TableSymbols == {<<"a">>, <<"a", "b">>}
TableEntries == TableNames \X TableSymbols \X TableNames
TableAccepts == {Omitted({})} \cup {Passed(S) : S \in SUBSET TableNames}

InitTable ==
  /\ \E t \in ListsUpTo(TableEntries, MaxTableTransitions) \ {<<>>},
        acc \in TableAccepts : n = DFA(t, acc)
  /\ word \in Inputs
  /\ args = [input |-> word, state |-> Omitted(<<>>)]
  /\ pc = "table_accept"
  /\ a = NoNFA
  /\ b = NoNFA
  /\ depth = 0
  /\ re = <<>>
  /\ result = "none"
  /\ calls = 0
  /\ fobj = FreshSet

\* one call of DFA.accept(input, state); args is the call's arguments
TableAccept ==
  /\ pc = "table_accept"
  /\ LET state == IF args.state.passed /\ args.state.value # <<>>
                  THEN args.state.value ELSE n.q0
         rest == args.input
         status == IF InF(state, n.F) THEN "True" ELSE "False"
     IN  IF Len(rest) = 0 \/ <<state, rest[1]>> \notin DOMAIN n.delta
         THEN /\ result' = status
              /\ pc' = "table_returned"
              /\ args' = args
         ELSE /\ args' = [input |-> Tail(rest),
                          state |-> Passed(n.delta[<<state, rest[1]>>])]
              /\ UNCHANGED <<result, pc>>
  /\ UNCHANGED <<a, b, n, depth, re, word, calls, fobj>>

SpecTable == InitTable /\ [][TableAccept]_vars

\* C27: in the table-driven DFA of src/homework/1/9.py, accept returns false
\* when the current state has no transition on the next input symbol while
\* input remains: a string is accepted only if all of its symbols are
\* consumed.
C27_StuckTableRejects ==
  (pc = "table_returned" /\ args.input # <<>>) => result = "False"

(***************************************************************************)
(* State identifiers that Python takes as false.  The constructor admits   *)
(* any hashable identifier; the empty string '' and the integer 0 are both *)
(* falsy, and `state or self.q0` treats them alike.  <<>> is the falsy     *)
(* identifier.                                                             *)
(***************************************************************************)
FalsyNames == {<<>>, <<"p">>, <<"q">>}

\* q0 is falsy only when the first transition starts at the falsy state
\* (`q0 or transitions[0][0]`)
InitFalsy ==
  /\ a \in {A \in Automata(FalsyNames, Symbols, MaxOperandTransitions) :
              A.q0 # <<>> \/ \E t \in A.transitions : t[1] = <<>>}
  /\ b = NoNFA
  /\ n = a
  /\ pc = "constructed"
  /\ depth = 0
  /\ re = <<>>
  /\ word = <<>>
  /\ result = "none"
  /\ args = NoArgs
  /\ calls = 0
  /\ fobj = FreshSet

SpecFalsy == InitFalsy /\ [][Accept]_vars

\* C28: every recursive step of accept continues from the successor state it
\* selected and never from the start state, for every state identifier the
\* constructor admits, the integer 0 and the empty string included: on an
\* automaton whose ε-transitions form no cycle, accept returns what following
\* the transitions from the start state gives.
C28_SearchContinuesFromSuccessor ==
  (pc = "accepted" /\ EpsAcyclic(a)) =>
    result = IF SetAccepts(a, word) THEN "True" ELSE "False"

====
